---- MODULE Spec2Model ----
(***************************************************************************)
(* TruthPost (src/contracts/truth_post.py): a claim store, a reputation    *)
(* ledger and a claim counter, written by submit_claim and resolve_claim   *)
(* and read by the view methods.  Each public method is one action.  A     *)
(* handler that raises leaves the storage as it was at the raise (no host  *)
(* rollback is assumed), so "nothing was written" is computed from the     *)
(* order of the statements, not taken for granted.                         *)
(***************************************************************************)
EXTENDS Integers, Sequences, FiniteSets, TLC

VARIABLES
    claims,       \* TreeMap[str, Claim]: function from claim id to Claim
    reputation,   \* TreeMap[Address, u256]: function from Address to count
    claim_count,  \* u256
    last,         \* the last call: method, sender, arguments, outcome, returned
                  \*   value; what the reducer did and agreed on; and (prior) how
                  \*   the call before it ended when that was a resolve_claim of
                  \*   the same claim id
    order,        \* history: the ids allocated by submit_claim, in call order
    resolutions,  \* history: per claim id, the number of successful resolve_claim
    inflight      \* resolve_claim calls past their checks, awaiting the reducer

vars == <<claims, reputation, claim_count, last, order, resolutions, inflight>>

----------------------------------------------------------------------------
(* Bounds and input universes *)

MaxClaims == 2

\* resolve_claim calls that may await the reducer at the same time
MaxInflight == 2

\* claims submitted where only the enumeration of the store is looked at
MaxManyClaims == 10

Texts == {"t1"}
Urls == {"u1"}
Addresses == {10, 11}
AddressSpace == 0 .. 15

\* the values a structured oracle answer carries under "verdict"
OracleVerdicts == {"true", "false", "partially_true", "maybe"}
OracleExplanations == {"e1"}

----------------------------------------------------------------------------
(* Address <-> hex string *)

\* the one element of a singleton; {e(x) : x \in {v}} evaluates v once for e
The(S) == CHOOSE x \in S : TRUE

HexDigits == <<"0", "1", "2", "3", "4", "5", "6", "7",
               "8", "9", "a", "b", "c", "d", "e", "f">>

AsHex(a) == "0x" \o HexDigits[a + 1]

Address(hex) == CHOOSE a \in AddressSpace : AsHex(a) = hex

----------------------------------------------------------------------------
(* Claim ids *)

\* faulty variant: ids are numbered from 0
ClaimId_zeroBased(n) == "claim_" \o ToString(n - 1)

\* claim_id = f"claim_{self.claim_count}"
ClaimId(n) == "claim_" \o ToString(n)

\* the ids callers pass: the ones submit_claim can allocate, and one it never does
ClaimIdArgs == {ClaimId(n) : n \in 1 .. MaxClaims + 1}

----------------------------------------------------------------------------
(* The oracle and the consensus reducer *)

\* what gl.nondet.exec_prompt may return: a dict with or without each key
OracleResults ==
    {[verdict |-> v, explanation |-> e] : v \in OracleVerdicts, e \in OracleExplanations}
    \cup {[verdict |-> "true"]}
    \cup {[explanation |-> e] : e \in OracleExplanations}

\* a validator's evaluation of the same computation: the leader's answer or another
ValidatorResults(leaderResult) ==
    {leaderResult, CHOOSE r \in OracleResults : r # leaderResult}

\* the keys of the oracle's dicts, in sorted order
SortedKeys == <<"explanation", "verdict">>

\* json.dumps(result, sort_keys=True): the <<key, value>> pairs, keys ascending
JsonDumps(d) ==
    LET present(k) == k \in DOMAIN d
    IN  The({[i \in 1 .. Len(keys) |-> <<keys[i], d[keys[i]]>>] :
             keys \in {SelectSeq(SortedKeys, present)}})

\* json.loads: the dict of the pairs
JsonLoads(s) ==
    [k \in {s[i][1] : i \in 1 .. Len(s)} |->
        (CHOOSE p \in {s[i] : i \in 1 .. Len(s)} : p[1] = k)[2]]

\* gl.eq_principle.strict_eq over the leader's and a validator's evaluation
StrictEq(leader, validator) ==
    IF leader = validator
    THEN [agreed |-> TRUE, value |-> leader]
    ELSE [agreed |-> FALSE, value |-> <<>>]

\* faulty variant: a disagreement is swallowed and the leader's answer is used
FactCheck_leaderWins(leaderResult, validatorResult) ==
    [raised |-> FALSE, result |-> JsonLoads(JsonDumps(leaderResult))]

\* _fact_check: both evaluations canonicalised, reduced, then parsed
FactCheck(leaderResult, validatorResult) ==
    The({IF r.agreed
         THEN [raised |-> FALSE, result |-> JsonLoads(r.value)]
         ELSE [raised |-> TRUE, result |-> <<>>] :
         r \in {StrictEq(JsonDumps(leaderResult), JsonDumps(validatorResult))}})

----------------------------------------------------------------------------
(* Storage helpers *)

Put(map, k, v) == [x \in DOMAIN map \cup {k} |-> IF x = k THEN v ELSE map[x]]

DictGet(d, k, default) == IF k \in DOMAIN d THEN d[k] ELSE default

NoReturn == <<>>

----------------------------------------------------------------------------
Init ==
    /\ claims = <<>>
    /\ reputation = <<>>
    /\ claim_count = 0
    /\ last = [op |-> "__init__", sender |-> 0, args |-> <<>>, outcome |-> "ok",
               ret |-> NoReturn, reducer |-> "not called", result |-> <<>>,
               prior |-> "none"]
    /\ order = <<>>
    /\ resolutions = <<>>
    /\ inflight = <<>>

----------------------------------------------------------------------------
(* submit_claim *)

\* faulty variant: text and source_url are stored in each other's field
NewClaim_swapped(claim_id, claim_text, source_url, sender) ==
    [id |-> claim_id,
     text |-> source_url,
     verdict |-> "pending",
     explanation |-> "",
     source_url |-> claim_text,
     submitter |-> AsHex(sender),
     has_been_checked |-> FALSE]

\* Claim(id=..., text=..., verdict="pending", ...)
NewClaim(claim_id, claim_text, source_url, sender) ==
    [id |-> claim_id,
     text |-> claim_text,
     verdict |-> "pending",
     explanation |-> "",
     source_url |-> source_url,
     submitter |-> AsHex(sender),
     has_been_checked |-> FALSE]

\* faulty variant: the counter is not advanced
NextClaimCount_same(n) == n

\* self.claim_count += 1
NextClaimCount(n) == n + 1

\* self.claims[claim_id] = claim, claim_id being the id just given to the claim
StoreClaim(map, claim) == Put(map, claim.id, claim)

\* faulty variant: the new id is returned
SubmitReturn_id(claim_id) == <<claim_id>>

\* submit_claim is declared -> None and has no return statement
SubmitReturn(claim_id) == NoReturn

SubmitClaimBody(sender, claim_text, source_url) ==
    /\ LET count == NextClaimCount(claim_count)
           claim_id == ClaimId(count)
           claim == NewClaim(claim_id, claim_text, source_url, sender)
       IN  /\ claim_count' = count
           /\ claims' = StoreClaim(claims, claim)
           /\ order' = Append(order, claim_id)
           /\ resolutions' = Put(resolutions, claim_id, DictGet(resolutions, claim_id, 0))
           /\ last' = [op |-> "submit_claim", sender |-> sender,
                       args |-> <<claim_text, source_url>>,
                       outcome |-> "ok", ret |-> SubmitReturn(claim_id),
                       reducer |-> "not called", result |-> <<>>,
                       prior |-> "none"]
    /\ UNCHANGED <<reputation, inflight>>

SubmitClaim(sender, claim_text, source_url) ==
    /\ claim_count < MaxClaims
    /\ SubmitClaimBody(sender, claim_text, source_url)

----------------------------------------------------------------------------
(* resolve_claim *)

\* what resolve_claim raises
ClaimNotFound == "Claim not found"
AlreadyChecked == "Claim already fact-checked"
ReducerFailed == "strict_eq: no agreement"
VerdictKeyError == "KeyError: verdict"

\* claim.verdict = result["verdict"]
SetVerdict(claim, result) == [claim EXCEPT !.verdict = result["verdict"]]

\* faulty variant: the explanation is written over the claim's text
SetExplanation_intoText(claim, result) ==
    [claim EXCEPT !.text = DictGet(result, "explanation", "")]

\* claim.explanation = result.get("explanation", "")
SetExplanation(claim, result) ==
    [claim EXCEPT !.explanation = DictGet(result, "explanation", "")]

\* claim.has_been_checked = True
SetChecked(claim) == [claim EXCEPT !.has_been_checked = TRUE]

\* faulty variant: has_been_checked is set before result["verdict"] is read
ApplyResult_flagFirst(claim, result) ==
    IF "verdict" \notin DOMAIN result
    THEN [raised |-> TRUE, claim |-> SetChecked(claim)]
    ELSE [raised |-> FALSE,
          claim |-> SetExplanation(SetVerdict(SetChecked(claim), result), result)]

\* the three field writes; result["verdict"] raises KeyError before the first
ApplyResult(claim, result) ==
    IF "verdict" \notin DOMAIN result
    THEN [raised |-> TRUE, claim |-> claim]
    ELSE [raised |-> FALSE,
          claim |-> SetChecked(SetExplanation(SetVerdict(claim, result), result))]

\* faulty variant: the caller of resolve_claim is rewarded
RewardedAddress_caller(claim, sender) == sender

\* submitter_addr = Address(claim.submitter)
RewardedAddress(claim, sender) == Address(claim.submitter)

\* faulty variant: the entry is set to 0 whether or not it exists
AwardReputation_restart(rep, addr) ==
    [Put(rep, addr, 0) EXCEPT ![addr] = @ + 1]

\* faulty variant: the entry is decremented
AwardReputation_minus(rep, addr) ==
    LET started == IF addr \notin DOMAIN rep THEN Put(rep, addr, 0) ELSE rep
    IN  [started EXCEPT ![addr] = @ - 1]

\* if submitter_addr not in self.reputation: ... = 0 ; ... += 1
AwardReputation(rep, addr) ==
    LET started == IF addr \notin DOMAIN rep THEN Put(rep, addr, 0) ELSE rep
    IN  [started EXCEPT ![addr] = @ + 1]

\* faulty variant: the has_been_checked guard is missing
IsChecked_never(claim) == FALSE

\* faulty variant: the guard is inverted
IsChecked_inverted(claim) == ~claim.has_been_checked

\* the guard on has_been_checked
IsChecked(claim) == claim.has_been_checked

\* the checks before the reducer is called: what they raise, or "ok"
ResolveChecks(cs, claim_id) ==
    IF claim_id \notin DOMAIN cs THEN ClaimNotFound
    ELSE IF IsChecked(cs[claim_id]) THEN AlreadyChecked
    ELSE "ok"

\* from the reducer's answer on: the writes through the claim taken from the store
ResolveWrites(cs, rep, sender, claim_id, fc) ==
    IF fc.raised
    THEN [claims |-> cs, reputation |-> rep, outcome |-> ReducerFailed,
          reducer_called |-> TRUE]
    ELSE
    The({IF applied.raised
         THEN [claims |-> Put(cs, claim_id, applied.claim), reputation |-> rep,
               outcome |-> VerdictKeyError, reducer_called |-> TRUE]
         ELSE [claims |-> Put(cs, claim_id, applied.claim),
               reputation |-> AwardReputation(rep, RewardedAddress(applied.claim, sender)),
               outcome |-> "ok", reducer_called |-> TRUE] :
         applied \in {ApplyResult(cs[claim_id], fc.result)}})

\* the whole body: the storage when the call returns or raises, and how it ended
ResolveRun(cs, rep, sender, claim_id, leaderResult, validatorResult) ==
    LET checked == ResolveChecks(cs, claim_id) IN
    IF checked # "ok"
    THEN [claims |-> cs, reputation |-> rep, outcome |-> checked,
          reducer_called |-> FALSE]
    ELSE The({ResolveWrites(cs, rep, sender, claim_id, fc) :
              fc \in {FactCheck(leaderResult, validatorResult)}})

ResolveClaim(sender, claim_id, leaderResult, validatorResult) ==
    \E run \in {ResolveRun(claims, reputation, sender, claim_id,
                           leaderResult, validatorResult)},
       reduced \in {StrictEq(JsonDumps(leaderResult), JsonDumps(validatorResult))} :
        /\ claims' = run.claims
        /\ reputation' = run.reputation
        /\ resolutions' =
              IF run.outcome = "ok"
              THEN [resolutions EXCEPT ![claim_id] = @ + 1]
              ELSE resolutions
        /\ last' = [op |-> "resolve_claim", sender |-> sender, args |-> <<claim_id>>,
                    outcome |-> run.outcome, ret |-> NoReturn,
                    reducer |-> IF ~run.reducer_called THEN "not called"
                                ELSE IF reduced.agreed THEN "agreed" ELSE "failed",
                    result |-> IF run.reducer_called /\ reduced.agreed
                               THEN <<JsonLoads(reduced.value)>> ELSE <<>>,
                    prior |-> IF last.op = "resolve_claim" /\ last.args = <<claim_id>>
                              THEN last.outcome ELSE "none"]
        /\ UNCHANGED <<claim_count, order, inflight>>

\* resolve_claim up to the call of the reducer, which it then awaits
ResolveBegin(sender, claim_id) ==
    /\ Len(inflight) < MaxInflight
    /\ LET checked == ResolveChecks(claims, claim_id)
       IN  /\ inflight' = IF checked = "ok"
                          THEN Append(inflight, [sender |-> sender, claim_id |-> claim_id])
                          ELSE inflight
           /\ last' = [op |-> IF checked = "ok" THEN "resolve_claim awaiting"
                              ELSE "resolve_claim",
                       sender |-> sender, args |-> <<claim_id>>,
                       outcome |-> checked, ret |-> NoReturn,
                       reducer |-> "not called", result |-> <<>>, prior |-> "none"]
    /\ UNCHANGED <<claims, reputation, claim_count, order, resolutions>>

\* the i-th awaiting resolve_claim gets the reducer's answer and runs to its end
ResolveFinish(i, leaderResult, validatorResult) ==
    /\ i \in 1 .. Len(inflight)
    /\ LET call == inflight[i]
           run == The({ResolveWrites(claims, reputation, call.sender, call.claim_id, fc) :
                          fc \in {FactCheck(leaderResult, validatorResult)}})
           reduced == StrictEq(JsonDumps(leaderResult), JsonDumps(validatorResult))
       IN  /\ claims' = run.claims
           /\ reputation' = run.reputation
           /\ resolutions' =
                 IF run.outcome = "ok"
                 THEN [resolutions EXCEPT ![call.claim_id] = @ + 1]
                 ELSE resolutions
           /\ inflight' = [k \in 1 .. Len(inflight) - 1 |->
                              IF k < i THEN inflight[k] ELSE inflight[k + 1]]
           /\ last' = [op |-> "resolve_claim", sender |-> call.sender,
                       args |-> <<call.claim_id>>,
                       outcome |-> run.outcome, ret |-> NoReturn,
                       reducer |-> IF reduced.agreed THEN "agreed" ELSE "failed",
                       result |-> IF reduced.agreed
                                  THEN <<JsonLoads(reduced.value)>> ELSE <<>>,
                       prior |-> "none"]
    /\ UNCHANGED <<claim_count, order>>

----------------
(* get_claim *)

\* faulty variant: an unknown id yields an empty answer instead of raising
GetClaimRun_default(cs, claim_id) ==
    IF claim_id \notin DOMAIN cs
    THEN [outcome |-> "ok", ret |-> NoReturn]
    ELSE [outcome |-> "ok", ret |-> <<cs[claim_id]>>]

GetClaimRun(cs, claim_id) ==
    IF claim_id \notin DOMAIN cs
    THEN [outcome |-> ClaimNotFound, ret |-> NoReturn]
    ELSE LET claim == cs[claim_id]
         IN  [outcome |-> "ok",
              ret |-> <<[id |-> claim.id,
                         text |-> claim.text,
                         verdict |-> claim.verdict,
                         explanation |-> claim.explanation,
                         source_url |-> claim.source_url,
                         submitter |-> claim.submitter,
                         has_been_checked |-> claim.has_been_checked]>>]

GetClaim(claim_id) ==
    LET run == GetClaimRun(claims, claim_id)
    IN  /\ last' = [op |-> "get_claim", sender |-> 0, args |-> <<claim_id>>,
                    outcome |-> run.outcome, ret |-> run.ret,
                    reducer |-> "not called", result |-> <<>>, prior |-> "none"]
        /\ UNCHANGED <<claims, reputation, claim_count, order, resolutions, inflight>>

----------------------------------------------------------------------------
(* get_claims: iteration over the TreeMap, which is ordered by key *)

\* the largest number a claim key is looked up for
MaxKeyNumber == MaxManyClaims + 2

\* the decimal digits f"{n}" writes
RECURSIVE Digits(_)
Digits(n) == IF n < 10 THEN <<n>> ELSE Append(Digits(n \div 10), n % 10)

\* the keys submit_claim can format
KeyOfNumber == [n \in 0 .. MaxKeyNumber |-> ClaimId(n)]

\* the number a key "claim_<n>" was formatted from
KeyNumber(k) == CHOOSE n \in 0 .. MaxKeyNumber : KeyOfNumber[n] = k

\* s < t for sequences of characters, as Python compares str
LexLess(s, t) ==
    \E i \in 1 .. Len(t) :
        /\ \A j \in 1 .. i - 1 : j <= Len(s) /\ s[j] = t[j]
        /\ (i > Len(s) \/ s[i] < t[i])

\* faulty variant: keys compared by the number they carry
StrLess_byNumber(a, b) == KeyNumber(a) < KeyNumber(b)

\* a < b for two claim keys: they share "claim_", the digits decide
StrLess(a, b) == LexLess(Digits(KeyNumber(a)), Digits(KeyNumber(b)))

\* TreeMap.items(): the (key, value) pairs in ascending key order
Items(map) ==
    LET rank == [k \in DOMAIN map |->
                    1 + Cardinality({j \in DOMAIN map : StrLess(j, k)})]
    IN  [i \in 1 .. Cardinality(DOMAIN map) |->
            LET k == CHOOSE x \in DOMAIN map : rank[x] = i
            IN  <<k, map[k]>>]

\* {k: v for k, v in self.claims.items()}: a dict keeps the order of insertion
GetClaimsRun(cs) == [outcome |-> "ok", ret |-> <<Items(cs)>>]

GetClaims ==
    LET run == GetClaimsRun(claims)
    IN  /\ last' = [op |-> "get_claims", sender |-> 0, args |-> <<>>,
                    outcome |-> run.outcome, ret |-> run.ret,
                    reducer |-> "not called", result |-> <<>>, prior |-> "none"]
        /\ UNCHANGED <<claims, reputation, claim_count, order, resolutions, inflight>>

----------------------------------------------------------------------------
(* get_reputation, get_user_reputation *)

\* the identities callers ask about: the submitters and one that never submits
UserAddressArgs == {AsHex(a) : a \in Addresses \cup {12}}

\* {k.as_hex: v for k, v in self.reputation.items()}
GetReputationRun(rep) ==
    [outcome |-> "ok",
     ret |-> <<[h \in {AsHex(a) : a \in DOMAIN rep} |-> rep[Address(h)]]>>]

GetReputation ==
    LET run == GetReputationRun(reputation)
    IN  /\ last' = [op |-> "get_reputation", sender |-> 0, args |-> <<>>,
                    outcome |-> run.outcome, ret |-> run.ret,
                    reducer |-> "not called", result |-> <<>>, prior |-> "none"]
        /\ UNCHANGED <<claims, reputation, claim_count, order, resolutions, inflight>>

\* faulty variant: the lookup creates the missing entry
GetUserReputationRun_inserting(rep, user_address) ==
    LET addr == Address(user_address)
        filled == IF addr \in DOMAIN rep THEN rep ELSE Put(rep, addr, 0)
    IN  [reputation |-> filled, outcome |-> "ok", ret |-> <<filled[addr]>>]

\* faulty variant: a missing entry raises instead of defaulting to 0
GetUserReputationRun_strict(rep, user_address) ==
    IF Address(user_address) \in DOMAIN rep
    THEN [reputation |-> rep, outcome |-> "ok", ret |-> <<rep[Address(user_address)]>>]
    ELSE [reputation |-> rep, outcome |-> "KeyError", ret |-> NoReturn]

\* self.reputation.get(Address(user_address), 0): the ledger after it, and the result
GetUserReputationRun(rep, user_address) ==
    [reputation |-> rep, outcome |-> "ok",
     ret |-> <<DictGet(rep, Address(user_address), 0)>>]

GetUserReputation(user_address) ==
    LET run == GetUserReputationRun(reputation, user_address)
    IN  /\ reputation' = run.reputation
        /\ last' = [op |-> "get_user_reputation", sender |-> 0,
                    args |-> <<user_address>>,
                    outcome |-> run.outcome, ret |-> run.ret,
                    reducer |-> "not called", result |-> <<>>, prior |-> "none"]
        /\ UNCHANGED <<claims, claim_count, order, resolutions, inflight>>

----------------------------------------------------------------------------
\* the leader's and the validator's evaluations a resolve_claim(claim_id) may
\* meet; they are consulted only when the checks before the reducer pass
ReducerInputs(claim_id) ==
    IF ResolveChecks(claims, claim_id) = "ok"
    THEN UNION {{<<l, v>> : v \in ValidatorResults(l)} : l \in OracleResults}
    ELSE {<<[verdict |-> "true"], [verdict |-> "true"]>>}

Next ==
    \/ \E s \in Addresses, t \in Texts, u \in Urls : SubmitClaim(s, t, u)
    \/ \E s \in Addresses, id \in ClaimIdArgs :
          \E in \in ReducerInputs(id) : ResolveClaim(s, id, in[1], in[2])
    \/ \E id \in ClaimIdArgs : GetClaim(id)
    \/ GetClaims
    \/ GetReputation
    \/ \E a \in UserAddressArgs : GetUserReputation(a)

Spec == Init /\ [][Next]_vars

\* an answer the prompt of _fact_check allows
ValidOracleResult == [verdict |-> "true", explanation |-> "e1"]

\* resolve_claim(claim_id) on a pending claim, the reducer agreeing on a valid answer
ResolveValid(claim_id) ==
    /\ ResolveChecks(claims, claim_id) = "ok"
    /\ \E s \in Addresses :
          ResolveClaim(s, claim_id, ValidOracleResult, ValidOracleResult)

\* the answers retried calls meet: allowed, outside the allowed set, no verdict
RetryOracleResults ==
    {ValidOracleResult, [verdict |-> "maybe", explanation |-> "e1"],
     [explanation |-> "e1"]}

\* the evaluations a retried resolve_claim(claim_id) may meet
RetryInputs(claim_id) ==
    IF ResolveChecks(claims, claim_id) = "ok"
    THEN RetryOracleResults \X RetryOracleResults
    ELSE {<<ValidOracleResult, ValidOracleResult>>}

\* submissions and resolutions only
NextRetry ==
    \/ \E s \in Addresses, t \in Texts, u \in Urls : SubmitClaim(s, t, u)
    \/ \E s \in Addresses, id \in ClaimIdArgs :
          \E in \in RetryInputs(id) : ResolveClaim(s, id, in[1], in[2])

\* callers keep retrying and the reducer eventually agrees on a valid answer
SpecFair ==
    /\ Init
    /\ [][NextRetry]_vars
    /\ \A id \in ClaimIdArgs : WF_vars(ResolveValid(id))

\* resolve_claim calls overlapping while they await the reducer
NextInterleaved ==
    \/ \E s \in Addresses, t \in Texts, u \in Urls : SubmitClaim(s, t, u)
    \/ \E s \in Addresses, id \in ClaimIdArgs : ResolveBegin(s, id)
    \/ \E i \in 1 .. MaxInflight, l \in OracleResults :
          \E v \in ValidatorResults(l) : ResolveFinish(i, l, v)

SpecInterleaved == Init /\ [][NextInterleaved]_vars

\* many submissions, and the enumeration of the store
SubmitMany(sender, claim_text, source_url) ==
    /\ claim_count < MaxManyClaims
    /\ SubmitClaimBody(sender, claim_text, source_url)

NextMany ==
    \/ \E s \in Addresses, t \in Texts, u \in Urls : SubmitMany(s, t, u)
    \/ GetClaims

SpecMany == Init /\ [][NextMany]_vars

----------------------------------------------------------------------------
(* Properties *)

\* the three verdict labels the fact-check prompt allows
AllowedVerdicts == {"true", "false", "partially_true"}

\* reputation of an identity, 0 without a ledger entry
RepIn(rep, a) == IF a \in DOMAIN rep THEN rep[a] ELSE 0

\* the step taken is the call op(id)
Called(op, id) == last'.op = op /\ last'.args = <<id>>

\* the id the latest submit_claim allocated
NewestId == order[Len(order)]

\* an agreed oracle answer that has a verdict among the allowed ones
ValidAnswer(answer) ==
    /\ answer # <<>>
    /\ "verdict" \in DOMAIN answer[1]
    /\ answer[1]["verdict"] \in AllowedVerdicts

\* C1: resolve_claim succeeds at most once per claim id: on a claim already
\* checked it fails with "Claim already fact-checked" and changes neither the
\* claims nor the reputation, so each claim earns exactly one increment.
C1_ResolveAtMostOnce ==
    /\ [](\A id \in DOMAIN resolutions : resolutions[id] <= 1)
    /\ [][\A id \in DOMAIN claims :
            (claims[id].has_been_checked /\ Called("resolve_claim", id))
            => /\ last'.outcome = AlreadyChecked
               /\ claims' = claims
               /\ reputation' = reputation]_vars

C1_Witness ==
    /\ last.op = "resolve_claim"
    /\ last.outcome = AlreadyChecked
    /\ resolutions[last.args[1]] = 1
    /\ RepIn(reputation, Address(claims[last.args[1]].submitter)) = 1

\* C2: the reputation of every identity (0 without an entry) is the number of
\* stored claims it submitted that have has_been_checked set, whatever their
\* verdicts.
C2_ReputationCountsChecked ==
    \A a \in AddressSpace :
        RepIn(reputation, a) =
            Cardinality({id \in DOMAIN claims :
                            /\ claims[id].submitter = AsHex(a)
                            /\ claims[id].has_been_checked})

C2_Witness ==
    \E a \in Addresses : \E i, j \in DOMAIN claims :
        /\ RepIn(reputation, a) = 2
        /\ i # j
        /\ claims[i].submitter = AsHex(a) /\ claims[j].submitter = AsHex(a)
        /\ claims[i].verdict = "true" /\ claims[j].verdict = "false"
        /\ \E b \in Addresses : RepIn(reputation, b) = 0

\* C3: every checked claim has a verdict among true, false, partially_true.
C3_CheckedVerdictAllowed ==
    \A id \in DOMAIN claims :
        claims[id].has_been_checked => claims[id].verdict \in AllowedVerdicts

\* C4: when the agreed answer lacks "verdict" or carries one outside the allowed
\* labels, resolve_claim fails on the verdict, writes nothing, and the claim
\* can still be resolved by a later call with a valid answer.
C4_InvalidVerdictRejected ==
    [][\A id \in DOMAIN claims :
        (Called("resolve_claim", id) /\ ~claims[id].has_been_checked)
        => /\ (last'.reducer = "agreed" /\ ~ValidAnswer(last'.result))
                => /\ last'.outcome = VerdictKeyError
                   /\ claims' = claims
                   /\ reputation' = reputation
           /\ ValidAnswer(last'.result)
                => /\ last'.outcome = "ok"
                   /\ claims'[id].has_been_checked]_vars

\* C5: when the reducer reaches no agreement, resolve_claim raises that failure,
\* the claims and the reputation stay as they were, and a later call on which
\* the reducer agrees on a valid answer succeeds.
C5_ReducerFailurePropagates ==
    [][\A id \in DOMAIN claims :
        (Called("resolve_claim", id) /\ ~claims[id].has_been_checked)
        => /\ last'.reducer = "failed"
                => /\ last'.outcome = ReducerFailed
                   /\ claims' = claims
                   /\ reputation' = reputation
           /\ ValidAnswer(last'.result)
                => /\ last'.outcome = "ok"
                   /\ claims'[id].has_been_checked
                   /\ claims'[id].verdict = last'.result[1]["verdict"]]_vars

C5_Witness ==
    /\ last.op = "resolve_claim"
    /\ last.prior = ReducerFailed
    /\ last.outcome = "ok"
    /\ ValidAnswer(last.result)
    /\ claims[last.args[1]].has_been_checked

\* C6: the k-th submit_claim is given the id claim_k: ids start at 1, have no
\* gap and no reuse, whatever resolve_claim calls come in between.
C6_SequentialIds ==
    /\ Len(order) = claim_count
    /\ \A k \in 1 .. Len(order) :
          /\ order[k] = "claim_" \o ToString(k)
          /\ order[k] \in DOMAIN claims
          /\ claims[order[k]].id = order[k]
    /\ Cardinality(DOMAIN claims) = Len(order)

C6_Witness ==
    /\ last.op = "submit_claim"
    /\ Len(order) >= 2
    /\ order[Len(order)] = "claim_" \o ToString(Len(order))
    /\ claims[order[1]].has_been_checked

\* C7: resolve_claim and get_claim on an id that is not stored raise "Claim not
\* found"; the reducer is not called and claims, reputation and counter are
\* left as they were.
C7_UnknownIdNotFound ==
    [][\A op \in {"resolve_claim", "get_claim"} : \A id \in ClaimIdArgs :
        (Called(op, id) /\ id \notin DOMAIN claims)
        => /\ last'.outcome = ClaimNotFound
           /\ last'.ret = <<>>
           /\ last'.reducer = "not called"
           /\ claims' = claims
           /\ reputation' = reputation
           /\ claim_count' = claim_count]_vars

C7_Witness ==
    /\ last.op = "resolve_claim"
    /\ last.args[1] \notin DOMAIN claims
    /\ last.outcome = ClaimNotFound
    /\ claim_count >= 1
    /\ \E a \in Addresses : RepIn(reputation, a) >= 1

\* C8: right after submit_claim(text, source_url) the newly stored claim has
\* that text and source_url, the sender as submitter, verdict "pending", an
\* empty explanation and has_been_checked false; the call does not fail and
\* calls no reducer.
C8_SubmittedClaimIsPending ==
    last.op = "submit_claim"
    => /\ last.outcome = "ok"
       /\ last.reducer = "not called"
       /\ NewestId \in DOMAIN claims
       /\ claims[NewestId].text = last.args[1]
       /\ claims[NewestId].source_url = last.args[2]
       /\ Address(claims[NewestId].submitter) = last.sender
       /\ claims[NewestId].verdict = "pending"
       /\ claims[NewestId].explanation = ""
       /\ claims[NewestId].has_been_checked = FALSE

C8_Witness ==
    /\ last.op = "submit_claim"
    /\ Len(order) >= 2
    /\ claims[NewestId].verdict = "pending"
    /\ claims[order[1]].has_been_checked
    /\ claims[order[1]].submitter # claims[NewestId].submitter

\* C9 as stated: submit_claim returns the id of the claim it has just stored.
C9_ReturnsNewId ==
    last.op = "submit_claim" => last.ret = <<NewestId>>

\* C9: submit_claim returns nothing; the claim it has just stored is the one
\* get_claim finds under "claim_" followed by the value of the claim counter.
C9_ReturnsNothing ==
    last.op = "submit_claim"
    => /\ last.ret = <<>>
       /\ LET found == GetClaimRun(claims, "claim_" \o ToString(claim_count))
          IN  /\ found.outcome = "ok"
              /\ found.ret[1].id = NewestId
              /\ found.ret[1].text = last.args[1]

C9_Witness ==
    /\ last.op = "submit_claim"
    /\ last.ret = <<>>
    /\ claim_count >= 2
    /\ GetClaimRun(claims, "claim_" \o ToString(claim_count)).outcome = "ok"

\* C10: resolution is all-or-nothing: after every call, failed ones included, a
\* claim has verdict, explanation or has_been_checked written exactly when its
\* submitter's reputation was incremented for it.
C10_AllOrNothing ==
    /\ [](\A id \in DOMAIN claims :
            ~claims[id].has_been_checked
            => claims[id].verdict = "pending" /\ claims[id].explanation = "")
    /\ [][/\ \A id \in DOMAIN claims :
               claims'[id] # claims[id]
               => /\ ~claims[id].has_been_checked
                  /\ claims'[id].has_been_checked
                  /\ last'.outcome = "ok"
                  /\ LET a == Address(claims[id].submitter)
                     IN  RepIn(reputation', a) = RepIn(reputation, a) + 1
          /\ reputation' # reputation
               => \E id \in DOMAIN claims :
                     /\ ~claims[id].has_been_checked
                     /\ claims'[id].has_been_checked
                     /\ claims'[id].verdict = last'.result[1]["verdict"]
                     /\ Called("resolve_claim", id)]_vars

C10_Witness ==
    /\ last.op = "resolve_claim"
    /\ last.outcome = VerdictKeyError
    /\ last.reducer = "agreed"
    /\ last.args[1] \in DOMAIN claims
    /\ claims[last.args[1]].verdict = "pending"
    /\ ~claims[last.args[1]].has_been_checked
    /\ \E id \in DOMAIN claims : claims[id].has_been_checked

\* C11: a claim goes from pending to checked only: once has_been_checked is
\* set it stays set, and the claim's verdict and explanation never change
\* again under any later submit_claim or resolve_claim.
C11_CheckedIsTerminal ==
    [][\A id \in DOMAIN claims :
        claims[id].has_been_checked
        => /\ id \in DOMAIN claims'
           /\ claims'[id].has_been_checked
           /\ claims'[id].verdict = claims[id].verdict
           /\ claims'[id].explanation = claims[id].explanation]_vars

C11_Witness ==
    /\ last.op = "resolve_claim"
    /\ last.prior = AlreadyChecked
    /\ last.outcome = AlreadyChecked
    /\ claims[last.args[1]].has_been_checked
    /\ claims[last.args[1]].verdict = "partially_true"
    /\ claim_count >= 2

\* C12: when resolve_claim is called again for a claim while an earlier call
\* for it still awaits the reducer, the claim gets one verdict write and its
\* submitter one increment.
C12_NoDoubleEffect ==
    \A id \in DOMAIN claims :
        /\ resolutions[id] <= 1
        /\ RepIn(reputation, Address(claims[id].submitter))
              <= Cardinality({j \in DOMAIN claims :
                                 claims[j].submitter = claims[id].submitter})

\* the stored claims an identity (as hex) submitted that are checked
CheckedClaimsOf(hex) ==
    {id \in DOMAIN claims : claims[id].submitter = hex /\ claims[id].has_been_checked}

\* C13: get_user_reputation never fails and returns 0 for every identity with
\* no checked claim, one that never submitted included; get_claims and
\* get_reputation never fail and return empty mappings when nothing was
\* submitted, respectively nothing was checked.
C13_ReadsDefaultToEmpty ==
    /\ last.op = "get_user_reputation"
          => /\ last.outcome = "ok"
             /\ CheckedClaimsOf(last.args[1]) = {} => last.ret = <<0>>
    /\ last.op = "get_claims"
          => /\ last.outcome = "ok"
             /\ order = <<>> => last.ret = << <<>> >>
    /\ last.op = "get_reputation"
          => /\ last.outcome = "ok"
             /\ (\A id \in DOMAIN claims : ~claims[id].has_been_checked)
                   => last.ret = << <<>> >>

C13_Witness ==
    /\ last.op = "get_user_reputation"
    /\ last.ret = <<0>>
    /\ \E id \in DOMAIN claims :
          claims[id].submitter = last.args[1] /\ ~claims[id].has_been_checked
    /\ \E id \in DOMAIN claims : claims[id].has_been_checked

\* C14: get_claim, get_claims, get_reputation and get_user_reputation leave the
\* claims, the reputation and the claim counter as they were, whether they
\* return or raise; get_user_reputation creates no ledger entry.
C14_ReadsChangeNothing ==
    [][last'.op \in {"get_claim", "get_claims", "get_reputation", "get_user_reputation"}
        => /\ claims' = claims
           /\ reputation' = reputation
           /\ DOMAIN reputation' = DOMAIN reputation
           /\ claim_count' = claim_count]_vars

C14_Witness ==
    /\ last.op = "get_user_reputation"
    /\ Address(last.args[1]) \notin DOMAIN reputation
    /\ reputation # <<>>
    /\ claim_count >= 1

\* C15: a successful resolve_claim by any caller adds exactly 1 to the
\* reputation of the claim's submitter, not the caller's, for every verdict,
\* and leaves every other identity's reputation, every other claim and the
\* claim counter as they were.
C15_RewardsSubmitterOnly ==
    [][\A id \in DOMAIN claims :
        (Called("resolve_claim", id) /\ last'.outcome = "ok")
        => LET sub == Address(claims[id].submitter)
           IN  /\ RepIn(reputation', sub) = RepIn(reputation, sub) + 1
               /\ \A a \in AddressSpace \ {sub} :
                     RepIn(reputation', a) = RepIn(reputation, a)
               /\ DOMAIN reputation' = DOMAIN reputation \cup {sub}
               /\ DOMAIN claims' = DOMAIN claims
               /\ \A j \in DOMAIN claims \ {id} : claims'[j] = claims[j]
               /\ claim_count' = claim_count]_vars

C15_Witness ==
    /\ last.op = "resolve_claim"
    /\ last.outcome = "ok"
    /\ claims[last.args[1]].verdict = "false"
    /\ Address(claims[last.args[1]].submitter) # last.sender
    /\ RepIn(reputation, Address(claims[last.args[1]].submitter)) = 2
    /\ RepIn(reputation, last.sender) = 0

\* C16: id, text, source_url and submitter of a stored claim never change: no
\* submit_claim overwrites a stored claim and no resolve_claim, successful or
\* failed, writes any of the four.
C16_SubmittedFieldsFixed ==
    [][\A id \in DOMAIN claims :
        /\ id \in DOMAIN claims'
        /\ claims'[id].id = claims[id].id
        /\ claims'[id].text = claims[id].text
        /\ claims'[id].source_url = claims[id].source_url
        /\ claims'[id].submitter = claims[id].submitter]_vars

C16_Witness ==
    /\ last.op = "submit_claim"
    /\ claim_count >= 2
    /\ \E id \in DOMAIN claims \ {NewestId} :
          /\ claims[id].has_been_checked
          /\ claims[id].explanation = "e1"
          /\ claims[id].text = "t1"
          /\ claims[id].source_url = "u1"
          /\ claims[id].submitter # claims[NewestId].submitter

\* C17: every reputation is a non-negative integer that never decreases from
\* one step to the next, and a ledger entry once created is never removed.
C17_ReputationMonotone ==
    /\ [](\A a \in DOMAIN reputation : reputation[a] \in Nat)
    /\ [][\A a \in DOMAIN reputation :
            /\ a \in DOMAIN reputation'
            /\ reputation'[a] >= reputation[a]]_vars

C17_Witness ==
    /\ \E a \in DOMAIN reputation : reputation[a] = 2
    /\ last.op = "resolve_claim"
    /\ last.outcome = "ok"
    /\ last.prior = VerdictKeyError

\* C18 as stated: get_claims enumerates the (id, claim) pairs in the order the
\* claims were submitted, for any number of claims.
C18_InsertionOrder ==
    last.op = "get_claims"
    => /\ Len(last.ret[1]) = Len(order)
       /\ \A i \in 1 .. Len(order) : last.ret[1][i][1] = order[i]

\* C18: get_claims enumerates every stored (id, claim) pair once, in ascending
\* order of the id strings; that is the order of submission while at most nine
\* claims are stored.
C18_KeyOrder ==
    last.op = "get_claims"
    => LET items == last.ret[1]
           digits(i) == Digits(KeyNumber(items[i][1]))
       IN  /\ Len(items) = Len(order)
           /\ {items[i][1] : i \in 1 .. Len(items)} = DOMAIN claims
           /\ \A i \in 1 .. Len(items) : items[i][2] = claims[items[i][1]]
           /\ \A i, j \in 1 .. Len(items) : i < j => LexLess(digits(i), digits(j))
           /\ Len(order) <= 9 => \A i \in 1 .. Len(items) : items[i][1] = order[i]

C18_Witness ==
    /\ last.op = "get_claims"
    /\ Len(order) >= 10
    /\ last.ret[1][1][1] = "claim_1"
    /\ last.ret[1][2][1] = "claim_10"
    /\ last.ret[1][3][1] = "claim_2"

\* C19: a failed resolve_claim (no agreement, or no verdict in the answer)
\* leaves the claim pending and resolvable, and when resolve_claim keeps being
\* retried and the reducer eventually agrees on a valid answer, every
\* submitted claim is eventually checked.
C19_RetryLiveness ==
    /\ [][\A id \in DOMAIN claims :
            (Called("resolve_claim", id)
                /\ last'.outcome \in {ReducerFailed, VerdictKeyError})
            => /\ claims'[id] = claims[id]
               /\ claims'[id].verdict = "pending"
               /\ ~claims'[id].has_been_checked
               /\ ResolveChecks(claims', id) = "ok"]_vars
    /\ \A id \in ClaimIdArgs :
          (id \in DOMAIN claims)
             ~> (id \in DOMAIN claims /\ claims[id].has_been_checked)

C19_Witness ==
    /\ last.op = "resolve_claim"
    /\ last.prior = VerdictKeyError
    /\ last.outcome = "ok"
    /\ claims[last.args[1]].verdict = "true"
    /\ claim_count >= 2
    /\ \A id \in DOMAIN claims : claims[id].has_been_checked

\* C20: in every reachable state the keys of the claim store are exactly
\* claim_1 .. claim_n for n the claim counter (none when n = 0), every stored
\* claim's id field is the key it is stored under, and the reputation ledger
\* has entries only for submitters of at least one checked claim, each entry
\* being at least 1.
C20_StoreAndLedgerShape ==
    /\ claim_count = 0 => claims = <<>>
    /\ DOMAIN claims = {"claim_" \o ToString(k) : k \in 1 .. claim_count}
    /\ \A key \in DOMAIN claims : claims[key].id = key
    /\ \A a \in DOMAIN reputation :
          /\ reputation[a] >= 1
          /\ \E key \in DOMAIN claims :
                /\ claims[key].has_been_checked
                /\ claims[key].submitter = AsHex(a)

C20_Witness ==
    /\ claim_count >= 2
    /\ DOMAIN reputation # {}
    /\ \E key \in DOMAIN claims :
          /\ ~claims[key].has_been_checked
          /\ Address(claims[key].submitter) \notin DOMAIN reputation

====
